---------------------------- MODULE Spec2Model ----------------------------
(***************************************************************************)
(* Model of computerphysik-review.py: the pipeline of process_folder       *)
(* (metadata from the folder path, classification of the files, the        *)
(* normalisation loop inside a temporary directory, template rendering,    *)
(* the typesetting run and the final pdfunite call) and the pure function  *)
(* decode.                                                                 *)
(*                                                                         *)
(* Strings are sequences of one-character strings, so that os.path and     *)
(* str operations are computed the way Python computes them.  Bytes are    *)
(* sequences of numbers 0..255.                                            *)
(***************************************************************************)
EXTENDS Integers, Sequences, FiniteSets, TLC

VARIABLES
    folder,       \* process_folder's argument `folder` (main passes os.getcwd())
    files,        \* process_folder's argument `files` (options.files)
    pc,           \* position inside process_folder
    name,         \* get_name_and_week()[0]
    nicename,     \* get_name_and_week()[1]
    week,         \* get_name_and_week()[2], still a string
    pdf_files,    \* list(filter(is_pdf, files))
    tempdir,      \* the name tempfile.TemporaryDirectory() picked
    workspace,    \* "none" | "live" | "removed": the temporary directory
    i,            \* index of the loop `for file_ in files`
    for_minted,   \* the (tex_name, path, language) triples
    rendered,     \* <<>> or <<document>>: result of template.render
    tex_file,     \* <<>> or <<path>>: where the rendered source was written
    written,      \* paths opened for writing by format_c_file / shutil.copy
    made_dirs,    \* directories handed to mkdir -p
    calls,        \* log of the external tool invocations, in order
    output,       \* <<>> or <<path>>: the file pdfunite wrote
    error,        \* "none" or the exception leaving process_folder
    run,          \* 1 for the first invocation, 2 for a repetition
    prev_rendered,\* `rendered` of the previous invocation on the same inputs
    s,            \* decode's argument: the bytes
    encodings,    \* decode's argument: the priority list
    decoded       \* <<>> or <<result>> of decode(s, encodings)

vars == <<folder, files, pc, name, nicename, week, pdf_files, tempdir,
          workspace, i, for_minted, rendered, tex_file, written, made_dirs,
          calls, output, error, run, prev_rendered, s, encodings, decoded>>

pipeline_vars == <<folder, files, pc, name, nicename, week, pdf_files, tempdir,
                   workspace, i, for_minted, rendered, tex_file, written,
                   made_dirs, calls, output, error, run, prev_rendered>>

decode_vars == <<s, encodings, decoded>>

---------------------------------------------------------------------------
(* Bounds of the model.                                                    *)

MaxFiles == 2

MaxBytes == 3

---------------------------------------------------------------------------
(* str and os.path (posixpath) as Python computes them.                    *)

Take(p, n) == SubSeq(p, 1, n)

Drop(p, n) == SubSeq(p, n + 1, Len(p))

\* 1-based index of the last occurrence of c, 0 when there is none
\* (Python's p.rfind(c) + 1).
rfind(p, c) ==
    LET I == {k \in 1..Len(p) : p[k] = c}
    IN  IF I = {} THEN 0 ELSE CHOOSE k \in I : \A j \in I : j <= k

startswith(p, q) == Len(q) <= Len(p) /\ Take(p, Len(q)) = q

RECURSIVE rstrip(_, _)
rstrip(p, c) ==
    IF p # <<>> /\ p[Len(p)] = c THEN rstrip(Take(p, Len(p) - 1), c) ELSE p

RECURSIVE lstrip(_, _)
lstrip(p, c) ==
    IF p # <<>> /\ p[1] = c THEN lstrip(Tail(p), c) ELSE p

\* str.lower() on the letters A-Z.
to_lower ==
    ("A" :> "a") @@ ("B" :> "b") @@ ("C" :> "c") @@ ("D" :> "d") @@ ("E" :> "e") @@
    ("F" :> "f") @@ ("G" :> "g") @@ ("H" :> "h") @@ ("I" :> "i") @@ ("J" :> "j") @@
    ("K" :> "k") @@ ("L" :> "l") @@ ("M" :> "m") @@ ("N" :> "n") @@ ("O" :> "o") @@
    ("P" :> "p") @@ ("Q" :> "q") @@ ("R" :> "r") @@ ("S" :> "s") @@ ("T" :> "t") @@
    ("U" :> "u") @@ ("V" :> "v") @@ ("W" :> "w") @@ ("X" :> "x") @@ ("Y" :> "y") @@
    ("Z" :> "z")

lower_char(c) == IF c \in DOMAIN to_lower THEN to_lower[c] ELSE c

lower(p) == [k \in 1..Len(p) |-> lower_char(p[k])]

\* str.replace(old, new): non-overlapping occurrences, left to right.
RECURSIVE replace(_, _, _)
replace(p, old, new) ==
    IF Len(p) < Len(old) THEN p
    ELSE IF startswith(p, old)
         THEN new \o replace(Drop(p, Len(old)), old, new)
         ELSE <<p[1]>> \o replace(Tail(p), old, new)

\* os.path.split
split(p) ==
    LET k    == rfind(p, "/")
        head == Take(p, k)
        tail == Drop(p, k)
    IN  << IF head # <<>> /\ (\E j \in 1..Len(head) : head[j] # "/")
           THEN rstrip(head, "/") ELSE head,
           tail >>

basename(p) == split(p)[2]

dirname(p) == split(p)[1]

\* os.path.splitext: the extension starts at the last dot of the last
\* component; leading dots of that component do not start an extension.
splitext(p) ==
    LET sepIndex == rfind(p, "/")
        dotIndex == rfind(p, ".")
    IN  IF dotIndex > sepIndex
           /\ \E k \in (sepIndex + 1)..(dotIndex - 1) : p[k] # "."
        THEN <<Take(p, dotIndex - 1), Drop(p, dotIndex - 1)>>
        ELSE <<p, <<>>>>

\* os.path.join(a, b)
join(a, b) ==
    IF startswith(b, <<"/">>) THEN b
    ELSE IF a = <<>> \/ a[Len(a)] = "/" THEN a \o b
    ELSE a \o <<"/">> \o b

\* str.split('/')
RECURSIVE str_split(_)
str_split(p) ==
    LET I == {k \in 1..Len(p) : p[k] = "/"}
    IN  IF I = {} THEN <<p>>
        ELSE LET k == CHOOSE k \in I : \A j \in I : k <= j
             IN  <<Take(p, k - 1)>> \o str_split(Drop(p, k))

\* '/'.join(comps)
RECURSIVE str_join(_)
str_join(comps) ==
    IF comps = <<>> THEN <<>>
    ELSE IF Len(comps) = 1 THEN comps[1]
    ELSE comps[1] \o <<"/">> \o str_join(Tail(comps))

DotDot == <<".", ".">>

RECURSIVE norm_comps(_, _, _)
norm_comps(comps, new_comps, initial_slashes) ==
    IF comps = <<>> THEN new_comps
    ELSE LET comp == comps[1]
         IN  IF comp = <<>> \/ comp = <<".">>
             THEN norm_comps(Tail(comps), new_comps, initial_slashes)
             ELSE IF comp # DotDot
                     \/ (initial_slashes = 0 /\ new_comps = <<>>)
                     \/ (new_comps # <<>> /\ new_comps[Len(new_comps)] = DotDot)
             THEN norm_comps(Tail(comps), Append(new_comps, comp), initial_slashes)
             ELSE IF new_comps # <<>>
             THEN norm_comps(Tail(comps), Take(new_comps, Len(new_comps) - 1),
                             initial_slashes)
             ELSE norm_comps(Tail(comps), new_comps, initial_slashes)

\* os.path.normpath
normpath(p) ==
    LET initial_slashes ==
            IF ~startswith(p, <<"/">>) THEN 0
            ELSE IF startswith(p, <<"/", "/">>) /\ ~startswith(p, <<"/", "/", "/">>)
                 THEN 2 ELSE 1
        joined == str_join(norm_comps(str_split(p), <<>>, initial_slashes))
        path   == [k \in 1..initial_slashes |-> "/"] \o joined
    IN  IF path = <<>> THEN <<".">> ELSE path

\* os.path.abspath(path) with the current working directory cwd
abspath(path, cwd) ==
    IF startswith(path, <<"/">>) THEN normpath(path) ELSE normpath(join(cwd, path))

Digits == <<"0","1","2","3","4","5","6","7","8","9">>

is_digit(c) == \E k \in 1..10 : Digits[k] = c

digit_value(c) == (CHOOSE k \in 1..10 : Digits[k] = c) - 1

\* The digits of an int literal: decimal digits, single underscores only
\* between two digits.
digits_ok(d) ==
    /\ d # <<>>
    /\ \A k \in 1..Len(d) :
          \/ is_digit(d[k])
          \/ /\ d[k] = "_"
             /\ 1 < k /\ k < Len(d)
             /\ is_digit(d[k - 1]) /\ is_digit(d[k + 1])

RECURSIVE digits_value(_, _)
digits_value(d, acc) ==
    IF d = <<>> THEN acc
    ELSE IF d[1] = "_" THEN digits_value(Tail(d), acc)
    ELSE digits_value(Tail(d), 10 * acc + digit_value(d[1]))

\* int(x) of a str: surrounding blanks stripped, an optional sign, digits.
\* ok = FALSE stands for ValueError.
int(x) ==
    LET t    == rstrip(lstrip(x, " "), " ")
        sign == IF t # <<>> /\ t[1] = "-" THEN -1 ELSE 1
        d    == IF t # <<>> /\ t[1] \in {"-", "+"} THEN Tail(t) ELSE t
    IN  IF digits_ok(d) THEN [ok |-> TRUE, val |-> sign * digits_value(d, 0)]
        ELSE [ok |-> FALSE, val |-> 0]


\* str(n) of an int
RECURSIVE nat_str(_)
nat_str(n) ==
    IF n < 10 THEN <<Digits[n + 1]>>
    ELSE nat_str(n \div 10) \o <<Digits[(n % 10) + 1]>>

str(n) == IF n < 0 THEN <<"-">> \o nat_str(-n) ELSE nat_str(n)

---------------------------------------------------------------------------
(* Module-level tables and the classification lambdas of process_folder.   *)

EXT_C == {<<".","h">>, <<".","h","p","p">>, <<".","c">>, <<".","c","p","p">>}

EXT_IMG == {<<".","p","d","f">>}

EXT_TXT == {<<".","t","x","t">>, <<".","d","a","t">>}

EXT_DIFF == {<<".","d","i","f","f">>, <<".","p","a","t","c","h">>}

\* A plausible slip: the extension is compared without lower-casing.
is_c_case_sensitive(x) == splitext(x)[2] \in EXT_C

is_c(x) == splitext(lower(x))[2] \in EXT_C

is_txt(x) == splitext(lower(x))[2] \in EXT_TXT

is_diff(x) == splitext(lower(x))[2] \in EXT_DIFF

is_pdf(x) == splitext(lower(x))[2] = <<".","p","d","f">>

is_make(x) == lower(x) = <<"m","a","k","e","f","i","l","e">>

\* A plausible slip: the two trailing segments read in the other order
\* (<name>/<week> instead of <week>/<name>).
get_name_and_week_swapped(path) ==
    LET base_week == split(path)
        name_     == split(base_week[1])[2]
    IN  << name_,
           replace(replace(name_, <<"_">>, <<" ">>), <<"-","-">>,
                   <<" ","\\","a","n","d"," ">>),
           base_week[2] >>

\* get_name_and_week: (name, nicename, week)
get_name_and_week(path) ==
    LET base_name    == split(path)
        ignored_week == split(base_name[1])
        name_        == base_name[2]
    IN  << name_,
           replace(replace(name_, <<"_">>, <<" ">>), <<"-","-">>,
                   <<" ","\\","a","n","d"," ">>),
           ignored_week[2] >>

\* 'Review-{}-{}.tex'.format(name, week) and 'Review-{}-{}.pdf'.format(...)
tex_basename(n, w) ==
    <<"R","e","v","i","e","w","-">> \o n \o <<"-">> \o w \o <<".","t","e","x">>

pdf_basename(n, w) ==
    <<"R","e","v","i","e","w","-">> \o n \o <<"-">> \o w \o <<".","p","d","f">>

\* template.render(name=..., week=..., files=...): the substituted values in
\* the order of RAW_TEMPLATE (week, name, then one block per entry with
\* basename, language, filename).
render(nicename_, week_, files_) ==
    [ title  |-> str(week_),
      author |-> nicename_,
      blocks |-> [k \in 1..Len(files_) |->
                    [ section  |-> files_[k][1],
                      language |-> files_[k][3],
                      filename |-> files_[k][2] ]] ]

Call(tool, args, cwd, ok) == [tool |-> tool, args |-> args, cwd |-> cwd, ok |-> ok]

---------------------------------------------------------------------------
(* Inputs.                                                                 *)

\* Directories os.getcwd() can return: absolute and normalised.
Folders ==
    { <<"/","0","1","/","U","e","d","i","n","g">>,     \* /01/Ueding
      <<"/","U","e","d","i","n","g","/","0","1">>,     \* /Ueding/01
      <<"/","2","/","A","_","B","-","-","C">> }        \* /2/A_B--C

\* File arguments of the command line.
FileNames ==
    { <<"B",".","C">>,                          \* B.C
      <<"a","_","b",".","t","x","t">>,          \* a_b.txt
      <<"M","a","k","e","f","i","l","e">>,      \* Makefile
      <<"d","/","x",".","d","i","f","f">>,      \* d/x.diff
      <<"r",".","p","d","f">>,                  \* r.pdf
      <<"R",".","P","D","F">>,                  \* R.PDF
      <<".","p","d","f">>,                      \* .pdf
      <<".",".","/","a",".","c">>,              \* ../a.c
      <<"/","s","/","a",".","c">>,              \* /s/a.c
      <<"/","s","/","n",".","t","x","t">> }     \* /s/n.txt

\* Names tempfile.TemporaryDirectory() can pick.
TempDirs == { <<"/","t","m","p","/","p">>, <<"/","t","m","p","/","q">> }

FileLists == UNION { [1..n -> FileNames] : n \in 1..MaxFiles }


---------------------------------------------------------------------------
(* process_folder, one action per step.                                    *)

\* main(): process_folder(os.getcwd(), options.files, template) is about to
\* be called.
Init ==
    /\ folder \in Folders
    /\ files \in FileLists
    /\ pc = "start"
    /\ name = <<>> /\ nicename = <<>> /\ week = <<>>
    /\ pdf_files = <<>>
    /\ tempdir = <<>>
    /\ workspace = "none"
    /\ i = 0
    /\ for_minted = <<>>
    /\ rendered = <<>>
    /\ tex_file = <<>>
    /\ written = {}
    /\ made_dirs = {}
    /\ calls = <<>>
    /\ output = <<>>
    /\ error = "none"
    /\ run = 1
    /\ prev_rendered = <<>>
    /\ s = <<>> /\ encodings = <<>> /\ decoded = <<>>

\* abs_path, get_name_and_week, the lambdas and pdf_files.
Extract ==
    /\ pc = "start"
    /\ LET abs_path == abspath(folder, folder)
           nnw      == get_name_and_week(abs_path)
       IN  /\ name' = nnw[1]
           /\ nicename' = nnw[2]
           /\ week' = nnw[3]
    /\ pdf_files' = SelectSeq(files, is_pdf)
    /\ pc' = "mktemp"
    /\ UNCHANGED <<folder, files, tempdir, workspace, i, for_minted, rendered,
                   tex_file, written, made_dirs, calls, output, error, run,
                   prev_rendered>>
    /\ UNCHANGED decode_vars

\* with tempfile.TemporaryDirectory() as tempdir: the directory is created
\* under a freshly chosen name.
EnterTempDir ==
    /\ pc = "mktemp"
    /\ \E t \in TempDirs : tempdir' = t
    /\ workspace' = "live"
    /\ for_minted' = <<>>
    /\ i' = 1
    /\ pc' = "loop"
    /\ UNCHANGED <<folder, files, name, nicename, week, pdf_files, rendered,
                   tex_file, written, made_dirs, calls, output, error, run,
                   prev_rendered>>
    /\ UNCHANGED decode_vars

\* One iteration of `for file_ in files`.  (The `ls -la` call goes through
\* subprocess.call, its result is dropped and it changes nothing: it is not
\* logged.)  mkdir_ok, tool_ok: whether mkdir and clang-format / the copy
\* succeed.  A tool that exits non-zero and a tool that cannot be started
\* both raise out of the loop; the model names the exception of the first.
\* The text clang-format prints is not part of the state.
Iterate ==
    /\ pc = "loop"
    /\ i <= Len(files)
    /\ \E mkdir_ok \in BOOLEAN, tool_ok \in BOOLEAN :
         LET file_        == files[i]
             basename_    == basename(file_)
             tex_name     == replace(file_, <<"_">>, <<"\\","_">>)
             temp_dirname == join(tempdir, dirname(file_))
             temp_path    == join(tempdir, file_)
             language     == IF is_c(basename_) THEN "c"
                             ELSE IF is_txt(basename_) THEN "text"
                             ELSE IF is_make(basename_) THEN "make"
                             ELSE IF is_diff(basename_) THEN "diff"
                             ELSE "none"
             mkdir_call   == Call("mkdir", <<temp_dirname>>, <<>>, mkdir_ok)
             clang_call   == Call("clang-format", <<join(folder, file_)>>, <<>>, tool_ok)
             \* shutil.copy(file_, temp_path) raises SameFileError when both
             \* name the same file; file_ is resolved against the working
             \* directory, which is `folder`.
             same_file    == abspath(file_, folder) = abspath(temp_path, folder)
             failure      == IF ~mkdir_ok THEN "CalledProcessError"
                             ELSE IF language = "none" THEN "none"
                             ELSE IF language = "c"
                                  THEN IF tool_ok THEN "none" ELSE "CalledProcessError"
                             ELSE IF same_file THEN "SameFileError"
                             ELSE IF tool_ok THEN "none" ELSE "OSError"
             selected     == failure = "none" /\ language # "none"
         IN  /\ calls' = IF mkdir_ok /\ language = "c"
                         THEN calls \o <<mkdir_call, clang_call>>
                         ELSE Append(calls, mkdir_call)
             /\ made_dirs' = IF mkdir_ok THEN made_dirs \cup {temp_dirname}
                             ELSE made_dirs
             /\ written' = IF selected THEN written \cup {temp_path} ELSE written
             /\ for_minted' = IF selected
                              THEN Append(for_minted, <<tex_name, temp_path, language>>)
                              ELSE for_minted
             /\ error' = failure
             /\ IF failure = "none"
                THEN i' = i + 1 /\ pc' = "loop"
                ELSE i' = i /\ pc' = "exit"
    /\ UNCHANGED <<folder, files, name, nicename, week, pdf_files, tempdir,
                   workspace, rendered, tex_file, output, run, prev_rendered>>
    /\ UNCHANGED decode_vars

\* The loop has run over every file.
LoopDone ==
    /\ pc = "loop"
    /\ i > Len(files)
    /\ pc' = "assert"
    /\ UNCHANGED <<folder, files, name, nicename, week, pdf_files, tempdir,
                   workspace, i, for_minted, rendered, tex_file, written,
                   made_dirs, calls, output, error, run, prev_rendered>>
    /\ UNCHANGED decode_vars

\* The interpreter run with assertions stripped.
AssertNonEmptyStripped ==
    /\ pc = "assert"
    /\ pc' = "render"
    /\ UNCHANGED <<folder, files, name, nicename, week, pdf_files, tempdir,
                   workspace, i, for_minted, rendered, tex_file, written,
                   made_dirs, calls, output, error, run, prev_rendered>>
    /\ UNCHANGED decode_vars

\* assert len(for_minted) > 0
AssertNonEmpty ==
    /\ pc = "assert"
    /\ IF Len(for_minted) > 0
       THEN pc' = "render" /\ error' = error
       ELSE pc' = "exit" /\ error' = "AssertionError"
    /\ UNCHANGED <<folder, files, name, nicename, week, pdf_files, tempdir,
                   workspace, i, for_minted, rendered, tex_file, written,
                   made_dirs, calls, output, run, prev_rendered>>
    /\ UNCHANGED decode_vars

\* template.render(name=nicename, week=int(week), files=for_minted) and the
\* write of the .tex file into the temporary directory.
Render ==
    /\ pc = "render"
    /\ LET w == int(week)
       IN  IF w.ok
           THEN /\ rendered' = <<render(nicename, w.val, for_minted)>>
                /\ tex_file' = <<join(tempdir, tex_basename(name, week))>>
                /\ pc' = "compile"
                /\ error' = error
           ELSE /\ rendered' = rendered
                /\ tex_file' = tex_file
                /\ pc' = "exit"
                /\ error' = "ValueError"
    /\ UNCHANGED <<folder, files, name, nicename, week, pdf_files, tempdir,
                   workspace, i, for_minted, written, made_dirs, calls, output,
                   run, prev_rendered>>
    /\ UNCHANGED decode_vars

\* A plausible slip: subprocess.call instead of check_call, the exit status
\* of the typesetting run is dropped.
CompileUnchecked ==
    /\ pc = "compile"
    /\ \E ok \in BOOLEAN :
         calls' = Append(calls, Call("latexrun", <<tex_basename(name, week)>>,
                                     tempdir, ok))
    /\ pc' = "merge"
    /\ UNCHANGED <<folder, files, name, nicename, week, pdf_files, tempdir,
                   workspace, i, for_minted, rendered, tex_file, written,
                   made_dirs, output, error, run, prev_rendered>>
    /\ UNCHANGED decode_vars

\* subprocess.check_call(command, cwd=tempdir); on failure the exception and
\* the .tex source are printed and the exception is raised again.
Compile ==
    /\ pc = "compile"
    /\ \E ok \in BOOLEAN :
         /\ calls' = Append(calls, Call("latexrun", <<tex_basename(name, week)>>,
                                        tempdir, ok))
         /\ IF ok
            THEN pc' = "merge" /\ error' = error
            ELSE pc' = "exit" /\ error' = "CalledProcessError"
    /\ UNCHANGED <<folder, files, name, nicename, week, pdf_files, tempdir,
                   workspace, i, for_minted, rendered, tex_file, written,
                   made_dirs, output, run, prev_rendered>>
    /\ UNCHANGED decode_vars

\* A plausible slip: nothing to append, so the merge is skipped.
MergeSkipsEmpty ==
    /\ pc = "merge"
    /\ \E ok \in BOOLEAN :
         IF pdf_files = <<>>
         THEN calls' = calls /\ output' = output /\ error' = error
         ELSE /\ calls' = Append(calls,
                      Call("pdfunite",
                           <<join(tempdir, pdf_basename(name, week))>>
                             \o pdf_files \o <<pdf_basename(name, week)>>,
                           <<>>, ok))
              /\ output' = IF ok THEN <<pdf_basename(name, week)>> ELSE output
              /\ error' = IF ok THEN error ELSE "CalledProcessError"
    /\ pc' = "exit"
    /\ UNCHANGED <<folder, files, name, nicename, week, pdf_files, tempdir,
                   workspace, i, for_minted, rendered, tex_file, written,
                   made_dirs, run, prev_rendered>>
    /\ UNCHANGED decode_vars

\* subprocess.check_call(['pdfunite', <compiled pdf>] + pdf_files
\*                       + [pdf_basename])
Merge ==
    /\ pc = "merge"
    /\ \E ok \in BOOLEAN :
         /\ calls' = Append(calls,
                      Call("pdfunite",
                           <<join(tempdir, pdf_basename(name, week))>>
                             \o pdf_files \o <<pdf_basename(name, week)>>,
                           <<>>, ok))
         /\ output' = IF ok THEN <<pdf_basename(name, week)>> ELSE output
         /\ error' = IF ok THEN error ELSE "CalledProcessError"
    /\ pc' = "exit"
    /\ UNCHANGED <<folder, files, name, nicename, week, pdf_files, tempdir,
                   workspace, i, for_minted, rendered, tex_file, written,
                   made_dirs, run, prev_rendered>>
    /\ UNCHANGED decode_vars

\* A plausible slip: the directory made with mkdtemp and removed by a plain
\* statement at the end of the function, which an exception skips.
ExitTempDirOnSuccessOnly ==
    /\ pc = "exit"
    /\ workspace' = IF error = "none" THEN "removed" ELSE workspace
    /\ pc' = "done"
    /\ UNCHANGED <<folder, files, name, nicename, week, pdf_files, tempdir, i,
                   for_minted, rendered, tex_file, written, made_dirs, calls,
                   output, error, run, prev_rendered>>
    /\ UNCHANGED decode_vars

\* Leaving the `with` block, normally or by an exception: the temporary
\* directory is removed, then process_folder returns or raises.
ExitTempDir ==
    /\ pc = "exit"
    /\ workspace' = "removed"
    /\ pc' = "done"
    /\ UNCHANGED <<folder, files, name, nicename, week, pdf_files, tempdir, i,
                   for_minted, rendered, tex_file, written, made_dirs, calls,
                   output, error, run, prev_rendered>>
    /\ UNCHANGED decode_vars

Next ==
    \/ Extract
    \/ EnterTempDir
    \/ Iterate
    \/ LoopDone
    \/ AssertNonEmpty
    \/ Render
    \/ Compile
    \/ Merge
    \/ ExitTempDir

Spec == Init /\ [][Next]_vars


\* The same command line given again from the same directory: a second
\* process_folder call on identical inputs.  The first call's document
\* source is kept for comparison.
Repeat ==
    /\ pc = "done"
    /\ run = 1
    /\ run' = 2
    /\ prev_rendered' = rendered
    /\ pc' = "start"
    /\ name' = <<>> /\ nicename' = <<>> /\ week' = <<>>
    /\ pdf_files' = <<>>
    /\ tempdir' = <<>>
    /\ workspace' = "none"
    /\ i' = 0
    /\ for_minted' = <<>>
    /\ rendered' = <<>>
    /\ tex_file' = <<>>
    /\ written' = {}
    /\ made_dirs' = {}
    /\ calls' = <<>>
    /\ output' = <<>>
    /\ error' = "none"
    /\ UNCHANGED <<folder, files>>
    /\ UNCHANGED decode_vars

NextTwice ==
    \/ Next
    \/ Repeat

SpecTwice == Init /\ [][NextTwice]_vars

---------------------------------------------------------------------------
(* decode                                                                  *)

is_continuation(b) == 128 <= b /\ b <= 191

\* The first UTF-8 sequence of b (b non-empty): its length n (0: invalid or
\* truncated) and its code point, as the strict 'utf8' codec accepts them.
utf8_first(b) ==
    LET b1 == b[1]
        b2 == b[2]
        b3 == b[3]
        b4 == b[4]
        lo == IF b1 = 224 THEN 160 ELSE IF b1 = 240 THEN 144 ELSE 128
        hi == IF b1 = 237 THEN 159 ELSE IF b1 = 244 THEN 143 ELSE 191
    IN  IF b1 < 128 THEN [n |-> 1, cp |-> b1]
        ELSE IF 194 <= b1 /\ b1 <= 223
        THEN IF Len(b) >= 2 /\ is_continuation(b2)
             THEN [n |-> 2, cp |-> (b1 - 192) * 64 + (b2 - 128)]
             ELSE [n |-> 0, cp |-> 0]
        ELSE IF 224 <= b1 /\ b1 <= 239
        THEN IF Len(b) >= 3 /\ lo <= b2 /\ b2 <= hi /\ is_continuation(b3)
             THEN [n |-> 3, cp |-> (b1 - 224) * 4096 + (b2 - 128) * 64 + (b3 - 128)]
             ELSE [n |-> 0, cp |-> 0]
        ELSE IF 240 <= b1 /\ b1 <= 244
        THEN IF Len(b) >= 4 /\ lo <= b2 /\ b2 <= hi /\ is_continuation(b3)
                /\ is_continuation(b4)
             THEN [n |-> 4, cp |-> (b1 - 240) * 262144 + (b2 - 128) * 4096
                                   + (b3 - 128) * 64 + (b4 - 128)]
             ELSE [n |-> 0, cp |-> 0]
        ELSE [n |-> 0, cp |-> 0]

RECURSIVE utf8_decode(_)
utf8_decode(b) ==
    IF b = <<>> THEN [ok |-> TRUE, text |-> <<>>]
    ELSE LET f == utf8_first(b)
         IN  IF f.n = 0 THEN [ok |-> FALSE, text |-> <<>>]
             ELSE LET rest == utf8_decode(Drop(b, f.n))
                  IN  [ok |-> rest.ok, text |-> <<f.cp>> \o rest.text]

\* bytes.decode(encoding), errors='strict'; ok = FALSE stands for
\* UnicodeDecodeError.  A str is the sequence of its code points.
bytes_decode(b, encoding) ==
    IF encoding = "utf8" THEN utf8_decode(b)
    ELSE IF encoding = "latin1" THEN [ok |-> TRUE, text |-> b]
    ELSE IF \A k \in 1..Len(b) : b[k] < 128 THEN [ok |-> TRUE, text |-> b]
    ELSE [ok |-> FALSE, text |-> <<>>]

is_ascii(x) == x < 128

\* bytes.decode('ascii', 'ignore')
decode_ascii_ignore(b) == SelectSeq(b, is_ascii)

\* decode(s, encodings): the body of the for loop returns in its first
\* iteration, from the try or from the statement after it; an empty list
\* falls off the end of the function (None).
decode(b, encs) ==
    IF encs = <<>> THEN [none |-> TRUE, text |-> <<>>]
    ELSE LET r == bytes_decode(b, encs[1])
         IN  IF r.ok THEN [none |-> FALSE, text |-> r.text]
             ELSE [none |-> FALSE, text |-> decode_ascii_ignore(b)]

\* 'A', the two bytes of U+00E9 in UTF-8, and the byte of U+00E9 in Latin-1.
Bytes == {65, 195, 169, 233}

ByteStrings == UNION { [1..n -> Bytes] : n \in 0..MaxBytes }

\* The default of the parameter `encodings` and two other priority lists.
EncodingLists ==
    { <<"utf8", "latin1", "ascii">>, <<"ascii", "utf8">>, <<"latin1">> }

InitDecode ==
    /\ s \in ByteStrings
    /\ encodings \in EncodingLists
    /\ decoded = <<>>
    /\ folder = <<>> /\ files = <<>> /\ pc = "idle"
    /\ name = <<>> /\ nicename = <<>> /\ week = <<>>
    /\ pdf_files = <<>> /\ tempdir = <<>> /\ workspace = "none"
    /\ i = 0 /\ for_minted = <<>> /\ rendered = <<>> /\ tex_file = <<>>
    /\ written = {} /\ made_dirs = {} /\ calls = <<>> /\ output = <<>>
    /\ error = "none" /\ run = 1 /\ prev_rendered = <<>>

DecodeCall ==
    /\ pc = "idle"
    /\ decoded = <<>>
    /\ decoded' = <<decode(s, encodings)>>
    /\ UNCHANGED <<s, encodings>>
    /\ UNCHANGED pipeline_vars

SpecDecode == InitDecode /\ [][DecodeCall]_vars


---------------------------------------------------------------------------
(* Vocabulary of the properties.                                           *)

\* The extension of a path, lower-cased.
ExtensionOf(f) == splitext(lower(f))[2]

\* Source code, plain text, patch or build recipe.
Renderable(f) ==
    \/ ExtensionOf(f) \in EXT_C \cup EXT_TXT \cup EXT_DIFF
    \/ lower(basename(f)) = <<"m","a","k","e","f","i","l","e">>

Attachment(f) == ExtensionOf(f) \in EXT_IMG

\* The segments of the folder path, and its last two.
Segments == str_split(folder)

LastSegment == Segments[Len(Segments)]

SecondToLastSegment ==
    IF Len(Segments) >= 2 THEN Segments[Len(Segments) - 1] ELSE <<>>

DisplayName(n) ==
    replace(replace(n, <<"_">>, <<" ">>), <<"-","-">>, <<" ","\\","a","n","d"," ">>)

ReviewPdf(n, w) ==
    <<"R","e","v","i","e","w","-">> \o n \o <<"-">> \o w \o <<".","p","d","f">>

IsFormatter(c) == c.tool = "clang-format"

IsEngine(c) == c.tool = "latexrun"

IsMerge(c) == c.tool = "pdfunite"

IsMainTool(c) == IsFormatter(c) \/ IsEngine(c) \/ IsMerge(c)

\* The loop over the files ran to its end.
LoopCompleted ==
    pc \in {"assert", "render", "compile", "merge", "exit", "done"} /\ i > Len(files)

\* Where a path handed to open() or to a tool ends up, seen from `folder`.
Location(p) == abspath(p, folder)

InsideWorkspace(p) == startswith(Location(p), tempdir \o <<"/">>)

---------------------------------------------------------------------------
(* Properties.                                                             *)

\* C1: no path is both renderable and an attachment; pdf_files is the
\* subsequence of the .pdf paths of the input, in input order; for_minted
\* holds one entry per renderable path among the files the loop has passed,
\* in input order, so the entries given to the template are exactly the
\* renderable paths of the input.
C1_ClassificationPartitionsInput ==
    LET passed  == SelectSeq(Take(files, IF i = 0 THEN 0 ELSE i - 1), Renderable)
        all     == SelectSeq(files, Renderable)
    IN  /\ \A k \in 1..Len(files) : ~(Renderable(files[k]) /\ Attachment(files[k]))
        /\ pc # "start" => pdf_files = SelectSeq(files, Attachment)
        /\ pc \notin {"start", "mktemp"} =>
              /\ Len(for_minted) = Len(passed)
              /\ \A k \in 1..Len(passed) :
                    /\ for_minted[k][1] = replace(passed[k], <<"_">>, <<"\\","_">>)
                    /\ for_minted[k][2] = join(tempdir, passed[k])
        /\ rendered # <<>> =>
              /\ Len(rendered[1].blocks) = Len(all)
              /\ \A k \in 1..Len(all) :
                    /\ rendered[1].blocks[k].section
                         = replace(all[k], <<"_">>, <<"\\","_">>)
                    /\ rendered[1].blocks[k].filename = join(tempdir, all[k])

\* C1: a document rendered from one renderable and one attachment.
C1_Witness ==
    /\ rendered # <<>>
    /\ Len(files) = 2
    /\ Len(for_minted) = 1
    /\ Len(pdf_files) = 1

\* C2 as stated: the name is the second-to-last segment of the folder path
\* and the week number is the last segment parsed as an integer
\* (.../Ueding/01 gives "Ueding" and 1).
C2_NameThenWeek ==
    /\ pc # "start" =>
          /\ name = SecondToLastSegment
          /\ nicename = DisplayName(SecondToLastSegment)
    /\ rendered # <<>> =>
          /\ int(LastSegment).ok
          /\ rendered[1].title = str(int(LastSegment).val)

\* C2 amended: the name is the LAST segment of the folder path and the week
\* is the SECOND-TO-LAST one (.../01/Ueding gives name "Ueding", display
\* name "Ueding", and the week number 1 in the rendered document).
C2_WeekThenName ==
    /\ pc # "start" =>
          /\ name = LastSegment
          /\ nicename = DisplayName(LastSegment)
          /\ week = SecondToLastSegment
    /\ rendered # <<>> =>
          /\ int(SecondToLastSegment).ok
          /\ rendered[1].title = str(int(SecondToLastSegment).val)
          /\ rendered[1].author = DisplayName(LastSegment)
    /\ (folder = <<"/","0","1","/","U","e","d","i","n","g">> /\ rendered # <<>>) =>
          /\ name = <<"U","e","d","i","n","g">>
          /\ rendered[1].author = <<"U","e","d","i","n","g">>
          /\ rendered[1].title = <<"1">>

\* C2: the document of /01/Ueding has been rendered.
C2_Witness ==
    /\ folder = <<"/","0","1","/","U","e","d","i","n","g">>
    /\ rendered # <<>>

\* C3: once the metadata are extracted from a folder whose week segment is
\* not a number, the run has failed already: no temporary directory was
\* created and no tool was invoked.
C3_NonNumericWeekFailsAtExtraction ==
    (pc # "start" /\ pc # "idle" /\ ~int(week).ok) =>
        /\ workspace = "none"
        /\ calls = <<>>
        /\ written = {}

\* C4: when the loop ends with no entry in for_minted, the run fails before
\* rendering: no document source exists or is written, neither the
\* typesetting engine nor the merge tool is invoked, nothing is written to
\* the destination, and the failure is the assertion's.
C4_EmptyEntriesFailBeforeRender ==
    (LoopCompleted /\ for_minted = <<>>) =>
        /\ pc \in {"assert", "exit", "done"}
        /\ rendered = <<>>
        /\ tex_file = <<>>
        /\ \A k \in 1..Len(calls) : ~IsEngine(calls[k]) /\ ~IsMerge(calls[k])
        /\ output = <<>>
        /\ pc \in {"exit", "done"} => error = "AssertionError"

\* C4: a run over files none of which is renderable has ended.
C4_Witness ==
    /\ pc = "done"
    /\ LoopCompleted
    /\ for_minted = <<>>
    /\ error = "AssertionError"

\* C5: a failed invocation of the formatter, the typesetting engine or the
\* merge tool is the last invocation of the run (no retry, no later tool),
\* the run ends with that error, and after a formatter or typesetting
\* failure the merge tool has not run and nothing is at the destination.
C5_FailFast ==
    \A k \in 1..Len(calls) :
        (IsMainTool(calls[k]) /\ ~calls[k].ok) =>
            /\ k = Len(calls)
            /\ pc \in {"exit", "done"}
            /\ error = "CalledProcessError"
            /\ ~IsMerge(calls[k]) =>
                  /\ output = <<>>
                  /\ \A j \in 1..Len(calls) : ~IsMerge(calls[j])

\* C5: a run whose typesetting step failed has ended.
C5_Witness ==
    /\ pc = "done"
    /\ \E k \in 1..Len(calls) : IsEngine(calls[k]) /\ ~calls[k].ok

\* C6: when process_folder has returned or raised, the temporary directory
\* is gone; and it exists before anything is invoked or written.
C6_WorkspaceScoped ==
    /\ pc = "done" => workspace = "removed"
    /\ (calls # <<>> \/ written # {} \/ made_dirs # {} \/ tex_file # <<>>)
          => workspace # "none"

\* C6: a run that failed in an external tool has ended.
C6_Witness ==
    /\ pc = "done"
    /\ error = "CalledProcessError"
    /\ workspace = "removed"

C8_SameSourceTwice ==
    (run = 2 /\ rendered # <<>> /\ prev_rendered # <<>>) => rendered = prev_rendered

\* C9: every file written by the normalisation loop lies inside the
\* temporary directory, and no input file is written to.
C9_WritesStayInWorkspace ==
    \A p \in written :
        /\ InsideWorkspace(p)
        /\ \A k \in 1..Len(files) : Location(p) # Location(files[k])

\* The result of the first encoding of the list that decodes b, the lossy
\* fallback when none does.
RECURSIVE FirstSuccessful(_, _)
FirstSuccessful(b, encs) ==
    IF encs = <<>> THEN decode_ascii_ignore(b)
    ELSE IF bytes_decode(b, encs[1]).ok THEN bytes_decode(b, encs[1]).text
    ELSE FirstSuccessful(b, Tail(encs))

\* C10: decode returns what the first encoding of the priority list that
\* decodes the bytes without error gives; the lossy fallback only when
\* every encoding of the list has failed.
C10_FirstSuccessfulEncoding ==
    decoded # <<>> =>
        /\ ~decoded[1].none
        /\ decoded[1].text = FirstSuccessful(s, encodings)

=============================================================================
